---- MODULE Spec2Model ----
(***************************************************************************)
(* Cart-to-order workflow of the commerce backend                          *)
(* (src/controllers/cart.controllers.js, product controller in             *)
(* src/unnamed/part_002).                                                  *)
(*                                                                         *)
(* The relational store is four tables (products, carts, productInCarts,   *)
(* orders).  Every HTTP request is a handler that suspends at each `await` *)
(* of a store call, so a handler is modelled as a sequence of steps, one   *)
(* per store call, and the steps of the requests in flight interleave.     *)
(* The synchronous code between two awaits belongs to the step of the      *)
(* await that precedes it.                                                 *)
(***************************************************************************)
EXTENDS Integers, Sequences, FiniteSets, TLC

\* ------------------------------------------------------------------ bounds
NUsers == 2          \* authenticated clients
NProducts == 2       \* rows of the products table
MaxQty == 1          \* largest quantity a request body carries
NReqs == 2           \* requests in flight at the same time
MaxOps == 3          \* requests received in one behaviour
MaxCheckoutOps == 4  \* the same, in the checkout-only workload
MaxFailures == 1     \* store calls that reject in one behaviour
MaxCartOps == 4      \* requests received in the one-user workload

Users == 1..NUsers
Products == 1..NProducts
Reqs == 1..NReqs
\* quantity is not validated by the cart routes: 0 is a possible body value
Quantities == 0..MaxQty
\* product ids a request may name: the rows and one id that has no row
ProductIds == 1..(NProducts + 1)
\* stock a product starts with (createProduct stores the body's value)
InitStock == MaxQty + 1
\* unit price of product p (createProduct stores the body's value)
PriceOf(p) == p

VARIABLES
  products,   \* products table: id -> row
  carts,      \* carts table: sequence of rows, id = index (auto-increment)
  items,      \* productInCarts table: sequence of rows, id = index
  orders,     \* orders table: sequence of rows, id = index
  req,        \* the requests in flight: slot -> handler state
  ops,        \* requests received so far
  failures,   \* store calls that rejected so far
  purchasedNoAdd  \* history: user -> a purchase of the user succeeded, having
              \* run with no other request in flight, and the user sent
              \* no addProductToCart since

vars == <<products, carts, items, orders, req, ops, failures, purchasedNoAdd>>
store == <<products, carts, items, orders>>

\* ------------------------------------------------------------- the store
NoId == 0
NoRow == [id |-> NoId]

\* Model.findOne({where}): one of the matching rows; without ORDER BY the
\* store is free to return any of them.
ActiveCartsOf(u) ==
  {c \in 1..Len(carts) : carts[c].userId = u /\ carts[c].status = "active"}

ItemsOf(c, p) ==
  {i \in 1..Len(items) : items[i].cartId = c /\ items[i].productId = p}

ActiveItemsOf(c, p) == {i \in ItemsOf(c, p) : items[i].status = "active"}

\* The products the include of Cart.findOne returns: one instance per
\* product that has an active productInCart row in the cart, carrying one
\* of those rows (the ORM groups the joined rows by product id).
LoadedProducts(c) == {p \in Products : ActiveItemsOf(c, p) # {}}

\* Product.findOne({ where: { status: "active", id } })
ActiveProduct(p) == p \in Products /\ products[p].status = "active"

\* instance.update(values): Sequelize writes the columns whose new value
\* differs from the value the instance holds (the value it was loaded
\* with), and issues no statement when none differs.
InstanceUpdate(row, inst, values) ==
  [f \in DOMAIN row |->
     IF f \in DOMAIN values /\ values[f] # inst[f] THEN values[f] ELSE row[f]]

\* ---------------------------------------------------------- request state
NoEntry == [item |-> NoId, quantity |-> 0, price |-> 0, qa |-> 0, stage |-> "none"]

Idle ==
  [op |-> "none", pc |-> "idle", user |-> 0, productId |-> 0, quantity |-> 0,
   cart |-> NoId, item |-> NoId, inst |-> NoRow,
   loaded |-> [p \in Products |-> NoEntry],
   totalPrice |-> 0, code |-> 0, error |-> "", failed |-> FALSE,
   alone |-> FALSE, afterPurchase |-> FALSE]

Busy(r) == req[r].pc \notin {"idle", "done"}

\* res.status(code).json(...) / next(new AppError(code, message))
\* the handler's locals are dropped with it
Respond(r, code, error) ==
  [Idle EXCEPT !.pc = "done", !.op = req[r].op, !.user = req[r].user,
               !.code = code, !.error = error]

Init ==
  /\ products = [p \in Products |->
       [status |-> "active", price |-> PriceOf(p), quantityAvailable |-> InitStock]]
  /\ carts = <<>>
  /\ items = <<>>
  /\ orders = <<>>
  /\ req = [r \in Reqs |-> Idle]
  /\ ops = 0
  /\ failures = 0
  /\ purchasedNoAdd = [u \in Users |-> FALSE]

\* A request arrives (router -> validateSession -> controller) and the
\* handler runs up to its first store call.  Slots are interchangeable: the
\* request takes the first free one.
FreeSlot(r) == ~Busy(r) /\ \A s \in Reqs : s < r => Busy(s)

\* history: no other request is in flight.  A request has `alone` from its
\* arrival (a purchase: from the load of its cart) for as long as no other
\* request arrives; `afterPurchase` marks the first addProductToCart of a
\* user after a purchase of that user that succeeded running alone.
NoOtherRequest(r) == \A s \in Reqs \ {r} : ~Busy(s)

Receive(r, op, pc, u, p, q) ==
  /\ FreeSlot(r)
  /\ req' = [s \in Reqs |->
       IF s = r
       THEN [Idle EXCEPT !.op = op, !.pc = pc, !.user = u,
                         !.productId = p, !.quantity = q,
                         !.alone = NoOtherRequest(r),
                         !.afterPurchase = (op = "add" /\ purchasedNoAdd[u])]
       ELSE [req[s] EXCEPT !.alone = FALSE]]
  /\ ops' = ops + 1
  /\ purchasedNoAdd' =
       IF op = "add" THEN [purchasedNoAdd EXCEPT ![u] = FALSE] ELSE purchasedNoAdd
  /\ UNCHANGED <<store, failures>>

\* a step of request r that writes nothing
ReadStep(r, next) ==
  /\ req' = [req EXCEPT ![r] = next]
  /\ UNCHANGED <<store, ops, failures, purchasedNoAdd>>

\* ------------------------------------------------------- addProductToCart
\* the stock check off by one: a request for one unit more than the stock
\* passes
InsufficientOffByOne(quantity, quantityAvailable) ==
  quantity > quantityAvailable + 1

\* quantity > product.quantityAvailable
Insufficient(quantity, quantityAvailable) == quantity > quantityAvailable

\* POST /cart/add-product {productId, quantity}
ReceiveAdd(r) ==
  /\ ops < MaxOps
  /\ \E u \in Users, p \in ProductIds, q \in Quantities :
       Receive(r, "add", "a_product", u, p, q)

\* Product.findOne, then the two checks that follow it
AddFindProduct(r) ==
  /\ req[r].pc = "a_product"
  /\ LET p == req[r].productId IN
     ReadStep(r,
       IF ~ActiveProduct(p) THEN Respond(r, 404, "product")
       ELSE IF Insufficient(req[r].quantity, products[p].quantityAvailable)
            THEN Respond(r, 400, "insufficient")
            ELSE [req[r] EXCEPT !.pc = "a_cart"])

\* Cart.findOne({ where: { status: "active", userId } })
AddFindCart(r) ==
  /\ req[r].pc = "a_cart"
  /\ LET found == ActiveCartsOf(req[r].user) IN
     IF found = {}
     THEN ReadStep(r, [req[r] EXCEPT !.pc = "a_newcart"])
     ELSE \E c \in found : ReadStep(r, [req[r] EXCEPT !.pc = "a_item", !.cart = c])

\* Cart.create({ userId })
AddCreateCart(r) ==
  /\ req[r].pc = "a_newcart"
  /\ carts' = Append(carts, [userId |-> req[r].user, status |-> "active"])
  /\ req' = [req EXCEPT ![r] = [req[r] EXCEPT !.pc = "a_create", !.cart = Len(carts) + 1]]
  /\ UNCHANGED <<products, items, orders, ops, failures, purchasedNoAdd>>

\* ProductInCart.findOne({ where: { cartId, productId } }) and the three
\* `if`s on its result; a row that is neither active nor removed falls
\* through all three and the handler answers 201 with nothing written.
AddFindItem(r) ==
  /\ req[r].pc = "a_item"
  /\ LET found == ItemsOf(req[r].cart, req[r].productId) IN
     IF found = {}
     THEN ReadStep(r, [req[r] EXCEPT !.pc = "a_create"])
     ELSE \E i \in found :
            ReadStep(r,
              CASE items[i].status = "active" -> Respond(r, 400, "conflict")
                [] items[i].status = "removed" ->
                     [req[r] EXCEPT !.pc = "a_react", !.item = i, !.inst = items[i]]
                [] OTHER -> Respond(r, 201, ""))

\* addNewProduct = await productExists.update({ status: "active", quantity });
\* the 201 response carries addNewProduct
AddReactivate(r) ==
  /\ req[r].pc = "a_react"
  /\ LET i == req[r].item IN
     items' = [items EXCEPT ![i] =
       InstanceUpdate(items[i], req[r].inst,
                      [status |-> "active", quantity |-> req[r].quantity])]
  /\ req' = [req EXCEPT ![r] = [Respond(r, 201, "") EXCEPT !.item = req[r].item]]
  /\ UNCHANGED <<products, carts, orders, ops, failures, purchasedNoAdd>>

\* the created row without the body's quantity
NewItemWithoutQuantity(c, p, q) ==
  [cartId |-> c, productId |-> p, quantity |-> 0, status |-> "active"]

\* the row ProductInCart.create({ cartId, productId, quantity }) inserts
\* (status is left to the column default)
NewItem(c, p, q) ==
  [cartId |-> c, productId |-> p, quantity |-> q, status |-> "active"]

\* the created line item reserving its quantity of the product's stock
AddCreateItemReserving(r) ==
  /\ req[r].pc = "a_create"
  /\ items' = Append(items, NewItem(req[r].cart, req[r].productId, req[r].quantity))
  /\ products' = [products EXCEPT ![req[r].productId].quantityAvailable =
                    @ - req[r].quantity]
  /\ req' = [req EXCEPT ![r] = [Respond(r, 201, "") EXCEPT !.item = Len(items) + 1]]
  /\ UNCHANGED <<carts, orders, ops, failures, purchasedNoAdd>>

\* addNewProduct = await ProductInCart.create({ cartId, productId, quantity });
\* the 201 response carries addNewProduct
AddCreateItem(r) ==
  /\ req[r].pc = "a_create"
  /\ items' = Append(items, NewItem(req[r].cart, req[r].productId, req[r].quantity))
  /\ req' = [req EXCEPT ![r] = [Respond(r, 201, "") EXCEPT !.item = Len(items) + 1]]
  /\ UNCHANGED <<products, carts, orders, ops, failures, purchasedNoAdd>>

\* ------------------------------------------------------ updateCartProduct
\* PATCH /cart/update-product {productId, quantity}
ReceiveUpdate(r) ==
  /\ ops < MaxOps
  /\ \E u \in Users, p \in ProductIds, q \in Quantities :
       Receive(r, "update", "u_product", u, p, q)

\* Product.findOne, then the two checks that follow it
UpdateFindProduct(r) ==
  /\ req[r].pc = "u_product"
  /\ LET p == req[r].productId IN
     ReadStep(r,
       IF ~ActiveProduct(p) THEN Respond(r, 404, "product")
       ELSE IF Insufficient(req[r].quantity, products[p].quantityAvailable)
            THEN Respond(r, 400, "insufficient")
            ELSE [req[r] EXCEPT !.pc = "u_cart"])

\* the missing cart answered as the other handlers answer it, with 404
UpdateFindCartNotFound(r) ==
  /\ req[r].pc = "u_cart"
  /\ LET found == ActiveCartsOf(req[r].user) IN
     IF found = {}
     THEN ReadStep(r, Respond(r, 404, "nocart"))
     ELSE \E c \in found : ReadStep(r, [req[r] EXCEPT !.pc = "u_item", !.cart = c])

\* Cart.findOne({ where: { status: "active", userId } });
\* if (!cart) next(new AppError(400, "This user does not have a cart yet"))
UpdateFindCart(r) ==
  /\ req[r].pc = "u_cart"
  /\ LET found == ActiveCartsOf(req[r].user) IN
     IF found = {}
     THEN ReadStep(r, Respond(r, 400, "nocart"))
     ELSE \E c \in found : ReadStep(r, [req[r] EXCEPT !.pc = "u_item", !.cart = c])

\* ProductInCart.findOne({ where: { status: "active", cartId, productId } })
UpdateFindItem(r) ==
  /\ req[r].pc = "u_item"
  /\ LET found == ActiveItemsOf(req[r].cart, req[r].productId) IN
     IF found = {}
     THEN ReadStep(r, Respond(r, 404, "notincart"))
     ELSE \E i \in found :
            ReadStep(r, [req[r] EXCEPT !.pc = "u_write", !.item = i, !.inst = items[i]])

\* the values the two `if`s pass to productInCart.update
UpdateValues(quantity) ==
  IF quantity = 0 THEN [quantity |-> 0, status |-> "removed"]
  ELSE [quantity |-> quantity]

\* productInCart.update(...) when quantity === 0 or quantity > 0; 204
UpdateWrite(r) ==
  /\ req[r].pc = "u_write"
  /\ LET i == req[r].item IN
     items' = IF req[r].quantity >= 0
              THEN [items EXCEPT ![i] =
                     InstanceUpdate(items[i], req[r].inst, UpdateValues(req[r].quantity))]
              ELSE items
  /\ req' = [req EXCEPT ![r] = Respond(r, 204, "")]
  /\ UNCHANGED <<products, carts, orders, ops, failures, purchasedNoAdd>>

\* -------------------------------------------------- removeProductFromCart
\* DELETE /cart/:productId
ReceiveRemove(r) ==
  /\ ops < MaxOps
  /\ \E u \in Users, p \in ProductIds : Receive(r, "remove", "r_cart", u, p, 0)

\* Cart.findOne({ where: { status: "active", userId } })
RemoveFindCart(r) ==
  /\ req[r].pc = "r_cart"
  /\ LET found == ActiveCartsOf(req[r].user) IN
     IF found = {}
     THEN ReadStep(r, Respond(r, 404, "nocart"))
     ELSE \E c \in found : ReadStep(r, [req[r] EXCEPT !.pc = "r_item", !.cart = c])

\* ProductInCart.findOne({ where: { status: "active", cartId, productId } })
RemoveFindItem(r) ==
  /\ req[r].pc = "r_item"
  /\ LET found == ActiveItemsOf(req[r].cart, req[r].productId) IN
     IF found = {}
     THEN ReadStep(r, Respond(r, 404, "notincart"))
     ELSE \E i \in found :
            ReadStep(r, [req[r] EXCEPT !.pc = "r_write", !.item = i, !.inst = items[i]])

\* productInCart.update({ status: "removed", quantity: 0 }); 204
RemoveWrite(r) ==
  /\ req[r].pc = "r_write"
  /\ LET i == req[r].item IN
     items' = [items EXCEPT ![i] =
       InstanceUpdate(items[i], req[r].inst, [status |-> "removed", quantity |-> 0])]
  /\ req' = [req EXCEPT ![r] = Respond(r, 204, "")]
  /\ UNCHANGED <<products, carts, orders, ops, failures, purchasedNoAdd>>

\* ------------------------------------------------------------ getUserCart
\* GET /cart
ReceiveGet(r) ==
  /\ ops < MaxOps
  /\ \E u \in Users : Receive(r, "get", "g_cart", u, 0, 0)

\* Cart.findOne with the active productInCart rows included; the response
\* carries the cart and, per product, the row the include returned
GetCart(r) ==
  /\ req[r].pc = "g_cart"
  /\ LET found == ActiveCartsOf(req[r].user) IN
     IF found = {}
     THEN ReadStep(r, Respond(r, 404, "nocart"))
     ELSE \E c \in found :
          \E row \in [LoadedProducts(c) -> 1..Len(items)] :
            /\ \A p \in LoadedProducts(c) : row[p] \in ActiveItemsOf(c, p)
            /\ ReadStep(r, [Respond(r, 200, "") EXCEPT
                 !.cart = c,
                 !.loaded = [p \in Products |->
                   IF p \in LoadedProducts(c)
                   THEN [item |-> row[p], quantity |-> items[row[p]].quantity,
                         price |-> products[p].price,
                         qa |-> products[p].quantityAvailable, stage |-> "sent"]
                   ELSE NoEntry]])

\* ----------------------------------------------------------- purchaseCart
\* POST /cart/purchase
ReceivePurchase(r) ==
  /\ ops < MaxOps
  /\ \E u \in Users : Receive(r, "purchase", "p_cart", u, 0, 0)

\* the decrement applied to the stock the store holds at the write (an
\* atomic decrement) instead of the stock the handler loaded
NewQtyOfCurrent(loadedQty, current, quantity) == current - quantity

\* const newQty = product.quantityAvailable - product.productInCart.quantity,
\* computed on the product instance loaded with the cart
NewQty(loadedQty, current, quantity) == loadedQty - quantity

\* product.price * product.productInCart.quantity
ProductPrice(price, quantity) == price * quantity

Finished(loaded) == \A p \in Products : loaded[p].stage \in {"none", "done", "fail"}

\* a cart that loaded no product refused instead of purchased
JoinRefusingEmptyCart(r, rec) ==
  IF ~Finished(rec.loaded) THEN rec
  ELSE IF rec.failed THEN Respond(r, 500, "store")
  ELSE IF \A p \in Products : rec.loaded[p].stage = "none"
       THEN Respond(r, 400, "empty")
       ELSE [rec EXCEPT !.pc = "p_cartw"]

\* the join going on to cart.update although a task rejected
JoinIgnoringRejection(r, rec) ==
  IF ~Finished(rec.loaded) THEN rec ELSE [rec EXCEPT !.pc = "p_cartw"]

\* await Promise.all(cartPromises), for the handler state `rec` after a task
\* step: while a task is pending the handler waits; when all have settled
\* it goes on to cart.update, unless a task rejected: then catchAsync has
\* passed the error to next() and the handler is over.
Join(r, rec) ==
  IF ~Finished(rec.loaded) THEN rec
  ELSE IF rec.failed THEN Respond(r, 500, "store")
  ELSE [rec EXCEPT !.pc = "p_cartw"]

\* Cart.findOne({ where: { status: "active", userId }, include: [...] });
\* cart.products.map(...) starts one task per loaded product
PurchaseLoad(r) ==
  /\ req[r].pc = "p_cart"
  /\ LET found == ActiveCartsOf(req[r].user) IN
     IF found = {}
     THEN ReadStep(r, Respond(r, 404, "nocart"))
     ELSE \E c \in found :
          \E row \in [LoadedProducts(c) -> 1..Len(items)] :
            /\ \A p \in LoadedProducts(c) : row[p] \in ActiveItemsOf(c, p)
            /\ LET loaded == [p \in Products |->
                     IF p \in LoadedProducts(c)
                     THEN [item |-> row[p], quantity |-> items[row[p]].quantity,
                           price |-> products[p].price,
                           qa |-> products[p].quantityAvailable, stage |-> "item"]
                     ELSE NoEntry]
               IN ReadStep(r, Join(r, [req[r] EXCEPT !.cart = c, !.loaded = loaded,
                                                     !.pc = "p_items",
                                                     !.alone = NoOtherRequest(r)]))

\* await product.productInCart.update({ status: "purchased" }); then
\* totalPrice += productPrice and product.update is issued
PurchaseItem(r, p) ==
  /\ req[r].pc = "p_items"
  /\ req[r].loaded[p].stage = "item"
  /\ LET e == req[r].loaded[p]
         loaded == [req[r].loaded EXCEPT ![p].stage = "stock"]
     IN /\ items' = [items EXCEPT ![e.item] =
             InstanceUpdate(items[e.item], [status |-> "active"],
                            [status |-> "purchased"])]
        /\ req' = [req EXCEPT ![r] =
             [req[r] EXCEPT !.loaded = loaded,
                            !.totalPrice = @ + ProductPrice(e.price, e.quantity)]]
  /\ UNCHANGED <<products, carts, orders, ops, failures, purchasedNoAdd>>

\* return await product.update({ quantityAvailable: newQty })
PurchaseStock(r, p) ==
  /\ req[r].pc = "p_items"
  /\ req[r].loaded[p].stage = "stock"
  /\ LET e == req[r].loaded[p]
         loaded == [req[r].loaded EXCEPT ![p].stage = "done"]
     IN /\ products' = [products EXCEPT ![p] =
             InstanceUpdate(products[p], [quantityAvailable |-> e.qa],
               [quantityAvailable |->
                  NewQty(e.qa, products[p].quantityAvailable, e.quantity)])]
        /\ req' = [req EXCEPT ![r] = Join(r, [req[r] EXCEPT !.loaded = loaded])]
  /\ UNCHANGED <<carts, items, orders, ops, failures, purchasedNoAdd>>

\* One of the two updates of a task rejects: the task stops there,
\* Promise.all rejects and catchAsync hands the error to next(); the other
\* tasks are not cancelled and nothing is undone.
PurchaseTaskFails(r, p) ==
  /\ failures < MaxFailures
  /\ req[r].pc = "p_items"
  /\ req[r].loaded[p].stage \in {"item", "stock"}
  /\ LET loaded == [req[r].loaded EXCEPT ![p].stage = "fail"]
         failed == [req[r] EXCEPT !.loaded = loaded, !.failed = TRUE,
                                  !.code = 500, !.error = "store"]
     IN req' = [req EXCEPT ![r] = Join(r, failed)]
  /\ failures' = failures + 1
  /\ UNCHANGED <<store, ops, purchasedNoAdd>>

\* await cart.update({ status: "purchased" })
PurchaseCartWrite(r) ==
  /\ req[r].pc = "p_cartw"
  /\ LET c == req[r].cart IN
     carts' = [carts EXCEPT ![c] =
       InstanceUpdate(carts[c], [status |-> "active"], [status |-> "purchased"])]
  /\ req' = [req EXCEPT ![r] = [req[r] EXCEPT !.pc = "p_order"]]
  /\ UNCHANGED <<products, items, orders, ops, failures, purchasedNoAdd>>

\* await Order.create({ userId, cartId, issuedAt, totalPrice }); 201
PurchaseOrder(r) ==
  /\ req[r].pc = "p_order"
  /\ orders' = Append(orders,
       [userId |-> req[r].user, cartId |-> req[r].cart,
        totalPrice |-> req[r].totalPrice])
  /\ req' = [req EXCEPT ![r] = Respond(r, 201, "")]
  /\ purchasedNoAdd' = [purchasedNoAdd EXCEPT ![req[r].user] = req[r].alone]
  /\ UNCHANGED <<products, carts, items, ops, failures>>

\* cart.update or Order.create rejects: the handler stops with the error
PurchaseFinalFails(r) ==
  /\ failures < MaxFailures
  /\ req[r].pc \in {"p_cartw", "p_order"}
  /\ req' = [req EXCEPT ![r] = Respond(r, 500, "store")]
  /\ failures' = failures + 1
  /\ UNCHANGED <<store, ops, purchasedNoAdd>>

\* ---------------------------------------------------------- updateProduct
\* PATCH /products/:id {quantityAvailable} (admin)
ReceiveUpdateProduct(r) ==
  /\ ops < MaxOps
  /\ \E p \in ProductIds, q \in Quantities :
       Receive(r, "updateProduct", "m_product", 0, p, q)

\* Product.findOne({ where: { status: "active", id } })
UpdateProductFind(r) ==
  /\ req[r].pc = "m_product"
  /\ LET p == req[r].productId IN
     ReadStep(r,
       IF ~ActiveProduct(p) THEN Respond(r, 404, "product")
       ELSE [req[r] EXCEPT !.pc = "m_write", !.inst = products[p]])

\* await product.update({ ...data })
UpdateProductWrite(r) ==
  /\ req[r].pc = "m_write"
  /\ LET p == req[r].productId IN
     products' = [products EXCEPT ![p] =
       InstanceUpdate(products[p], req[r].inst,
                      [quantityAvailable |-> req[r].quantity])]
  /\ req' = [req EXCEPT ![r] = Respond(r, 204, "")]
  /\ UNCHANGED <<carts, items, orders, ops, failures, purchasedNoAdd>>

\* ---------------------------------------------------------- specification
Next ==
  \E r \in Reqs :
    \/ ReceiveAdd(r)
    \/ AddFindProduct(r)
    \/ AddFindCart(r)
    \/ AddCreateCart(r)
    \/ AddFindItem(r)
    \/ AddReactivate(r)
    \/ AddCreateItem(r)
    \/ ReceiveUpdate(r)
    \/ UpdateFindProduct(r)
    \/ UpdateFindCart(r)
    \/ UpdateFindItem(r)
    \/ UpdateWrite(r)
    \/ ReceiveRemove(r)
    \/ RemoveFindCart(r)
    \/ RemoveFindItem(r)
    \/ RemoveWrite(r)
    \/ ReceiveGet(r)
    \/ GetCart(r)
    \/ ReceivePurchase(r)
    \/ PurchaseLoad(r)
    \/ \E p \in Products : PurchaseItem(r, p)
    \/ \E p \in Products : PurchaseStock(r, p)
    \/ \E p \in Products : PurchaseTaskFails(r, p)
    \/ PurchaseCartWrite(r)
    \/ PurchaseOrder(r)
    \/ PurchaseFinalFails(r)
    \/ ReceiveUpdateProduct(r)
    \/ UpdateProductFind(r)
    \/ UpdateProductWrite(r)

Spec == Init /\ [][Next]_vars

\* The checkout-only workload: the same handlers, the requests limited to
\* add-product of one unit of the first product and purchase, so that four
\* requests (two adds and two purchases) fit the search.
ReceiveCheckoutAdd(r) ==
  /\ ops < MaxCheckoutOps
  /\ \E u \in Users : Receive(r, "add", "a_product", u, 1, 1)

ReceiveCheckoutPurchase(r) ==
  /\ ops < MaxCheckoutOps
  /\ \E u \in Users : Receive(r, "purchase", "p_cart", u, 0, 0)

NextCheckout ==
  \E r \in Reqs :
    \/ ReceiveCheckoutAdd(r)
    \/ AddFindProduct(r)
    \/ AddFindCart(r)
    \/ AddCreateCart(r)
    \/ AddFindItem(r)
    \/ AddCreateItem(r)
    \/ ReceiveCheckoutPurchase(r)
    \/ PurchaseLoad(r)
    \/ \E p \in Products : PurchaseItem(r, p)
    \/ \E p \in Products : PurchaseStock(r, p)
    \/ PurchaseCartWrite(r)
    \/ PurchaseOrder(r)

SpecCheckout == Init /\ [][NextCheckout]_vars

\* The one-user workload: the same handlers, the requests limited to the
\* first user adding one unit of a product, removing a product and
\* purchasing, with no store failure, so that four requests on one user's
\* carts fit the search.
ReceiveCartAdd(r) ==
  /\ ops < MaxCartOps
  /\ \E p \in Products : Receive(r, "add", "a_product", 1, p, 1)

ReceiveCartRemove(r) ==
  /\ ops < MaxCartOps
  /\ \E p \in Products : Receive(r, "remove", "r_cart", 1, p, 0)

ReceiveCartPurchase(r) ==
  /\ ops < MaxCartOps
  /\ Receive(r, "purchase", "p_cart", 1, 0, 0)

NextCart ==
  \E r \in Reqs :
    \/ ReceiveCartAdd(r)
    \/ AddFindProduct(r)
    \/ AddFindCart(r)
    \/ AddCreateCart(r)
    \/ AddFindItem(r)
    \/ AddReactivate(r)
    \/ AddCreateItem(r)
    \/ ReceiveCartRemove(r)
    \/ RemoveFindCart(r)
    \/ RemoveFindItem(r)
    \/ RemoveWrite(r)
    \/ ReceiveCartPurchase(r)
    \/ PurchaseLoad(r)
    \/ \E p \in Products : PurchaseItem(r, p)
    \/ \E p \in Products : PurchaseStock(r, p)
    \/ PurchaseCartWrite(r)
    \/ PurchaseOrder(r)

SpecCart == Init /\ [][NextCart]_vars

\* ================================================================= claims
\* C1: in every reachable state each user has at most one cart with status
\* active.
C1_OneActiveCartPerUser ==
  \A u \in Users : Cardinality(ActiveCartsOf(u)) <= 1

\* C2: in every reachable state no product's quantityAvailable is negative
\* (stock set at creation and by the admin is >= 0, so a negative value can
\* only be written by a purchase that decrements more than is there).
C2_StockNeverNegative ==
  \A p \in Products : products[p].quantityAvailable >= 0

\* C3: no two orders reference the same cart, and a cart whose status is
\* purchased never changes status again (so it becomes purchased once).
NoTwoOrdersOfACart ==
  \A i, j \in 1..Len(orders) : orders[i].cartId = orders[j].cartId => i = j

C3_OneOrderPerCart ==
  /\ []NoTwoOrdersOfACart
  /\ [][\A c \in 1..Len(carts) :
          carts[c].status = "purchased" => carts'[c].status = "purchased"]_vars

\* sum of f over the finite set S
RECURSIVE Sum(_, _)
Sum(S, f) ==
  IF S = {} THEN 0
  ELSE LET x == CHOOSE y \in S : TRUE IN f[x] + Sum(S \ {x}, f)

\* the products request r loaded a line item of
LoadedBy(r) == {p \in Products : req[r].loaded[p].stage # "none"}

\* the step taken is the stock write of request r's task for product p
StockWriteStep(r, p) ==
  /\ req[r].pc = "p_items"
  /\ req[r].loaded[p].stage = "stock"
  /\ req'[r].loaded[p].stage # "fail"
  /\ req'[r] # req[r]

\* C4: a purchaseCart that ran with no other request in flight and no store
\* failure creates one order whose totalPrice is the sum of price x quantity
\* over the cart's active line items, takes each item's quantity off its
\* product's stock, and leaves the cart and each of these items purchased
\* (stated at the step that creates the order; the line items active when
\* the cart was loaded are the ones not active any more at that step).
C4_PurchaseEffect ==
  [][\A r \in Reqs :
       (req[r].pc = "p_order" /\ req[r].alone /\ req'[r].code = 201) =>
       LET c == req[r].cart
           L == req[r].loaded
       IN /\ Len(orders') = Len(orders) + 1
          /\ orders'[Len(orders')].cartId = c
          /\ \A i \in 1..Len(items) : items[i].cartId = c => items[i].status # "active"
          /\ orders'[Len(orders')].totalPrice =
               Sum(LoadedBy(r),
                   [p \in Products |-> products[p].price * items[L[p].item].quantity])
          /\ \A p \in LoadedBy(r) :
               /\ products'[p].quantityAvailable = L[p].qa - items[L[p].item].quantity
               /\ items'[L[p].item].status = "purchased"
          /\ carts'[c].status = "purchased"]_vars

\* C5: after a purchaseCart of user U has succeeded and U has sent no
\* addProductToCart since, a purchaseCart of U finds no active cart: it
\* answers 404 and writes nothing.
C5_SecondPurchaseNotFound ==
  [][\A r \in Reqs :
       (req[r].pc = "p_cart" /\ req'[r].pc # "p_cart"
          /\ purchasedNoAdd[req[r].user]) =>
       (req'[r].pc = "done" /\ req'[r].code = 404 /\ store' = store)]_vars

\* two purchases of different users, both past their line-item tasks, that
\* loaded product p with the same quantityAvailable
ConcurrentPurchasesOf(r, s, p) ==
  /\ r # s
  /\ req[r].op = "purchase" /\ req[s].op = "purchase"
  /\ req[r].user # req[s].user
  /\ req[r].pc \in {"p_cartw", "p_order"} /\ req[s].pc \in {"p_cartw", "p_order"}
  /\ req[r].loaded[p].stage = "done" /\ req[s].loaded[p].stage = "done"
  /\ req[r].loaded[p].qa = req[s].loaded[p].qa

\* C6: two concurrent purchases of different users leave the stock of a
\* product both carts hold as the two purchases run one after the other
\* would: the loaded stock less both quantities.
C6_CrossUserPurchasesSerial ==
  \A r, s \in Reqs, p \in Products :
    ConcurrentPurchasesOf(r, s, p) =>
      products[p].quantityAvailable =
        req[r].loaded[p].qa - req[r].loaded[p].quantity - req[s].loaded[p].quantity

\* C7: purchaseCart writes the stock it loaded less its own quantity, with
\* no regard for what the store holds by then: when another purchase that
\* loaded the same stock has written its decrement, the write replaces it
\* (that decrement is lost).
C7_StockWriteLosesDecrement ==
  [][\A r, s \in Reqs, p \in Products :
       (/\ StockWriteStep(r, p)
        /\ req[r].loaded[p].quantity # 0
        /\ s # r /\ req[s].op = "purchase" /\ req[s].loaded[p].stage = "done"
        /\ req[s].loaded[p].qa = req[r].loaded[p].qa
        /\ products[p].quantityAvailable =
             req[s].loaded[p].qa - req[s].loaded[p].quantity) =>
       products'[p].quantityAvailable =
         req[r].loaded[p].qa - req[r].loaded[p].quantity]_vars

PurchasedQuantity(p) ==
  Sum({i \in 1..Len(items) : items[i].productId = p /\ items[i].status = "purchased"},
      [i \in 1..Len(items) |-> items[i].quantity])

\* two purchases of different users loaded the same stock of p, both wrote
\* it, and more units of p are in purchased line items than left the stock
C7_Oversold ==
  \E r, s \in Reqs, p \in Products :
    /\ ConcurrentPurchasesOf(r, s, p)
    /\ req[r].cart # req[s].cart
    /\ req[r].loaded[p].quantity >= 1 /\ req[s].loaded[p].quantity >= 1
    /\ PurchasedQuantity(p) > req[r].loaded[p].qa - products[p].quantityAvailable

\* C8: when an update of one line-item task of purchaseCart rejects, the
\* request answers with the error and the step undoes nothing; from then on
\* the request writes neither the cart nor an order, while its other tasks
\* still run.
C8_PartialFailureNoRollback ==
  [][\A r \in Reqs :
       /\ (req[r].pc = "p_items" /\ ~req[r].failed /\ req'[r].failed) =>
            (req'[r].code = 500 /\ store' = store)
       /\ (req[r].pc = "p_items" /\ ~req[r].failed /\ req'[r].pc = "done") =>
            (req'[r].code = 500 /\ store' = store)
       /\ (req[r].op = "purchase" /\ req[r].failed /\ req'[r] # req[r]) =>
            (carts' = carts /\ orders' = orders /\ req'[r].code = 500)]_vars

\* a purchase answered with the store's error; the user's cart is still
\* active and has no order, one of its line items is purchased with the
\* stock of its product taken, another one is still active
C8_PartlyPurchased ==
  \E r \in Reqs, c \in 1..Len(carts) :
    /\ req[r].op = "purchase" /\ req[r].pc = "done" /\ req[r].code = 500
    /\ carts[c].userId = req[r].user /\ carts[c].status = "active"
    /\ \A o \in 1..Len(orders) : orders[o].cartId # c
    /\ \E i, j \in 1..Len(items) :
         /\ items[i].cartId = c /\ items[j].cartId = c
         /\ items[i].status = "purchased" /\ items[i].quantity >= 1
         /\ products[items[i].productId].quantityAvailable
              = InitStock - items[i].quantity
         /\ items[j].status = "active"

\* C9: each (cart, product) pair has at most one line item whose status is
\* not removed.
C9_OneLineItemPerProduct ==
  \A c \in 1..Len(carts), p \in Products :
    Cardinality({i \in ItemsOf(c, p) : items[i].status # "removed"}) <= 1

\* C10: addProductToCart of an active product with a quantity above its
\* quantityAvailable answers 400 (insufficient) at the stock check and
\* writes nothing: no cart, no line item, no stock.
C10_InsufficientLeavesStateUnchanged ==
  [][\A r \in Reqs :
       (/\ req[r].op = "add" /\ req[r].pc = "a_product" /\ req'[r].pc # "a_product"
        /\ ActiveProduct(req[r].productId)
        /\ req[r].quantity > products[req[r].productId].quantityAvailable) =>
       (/\ req'[r].pc = "done" /\ req'[r].code = 400
        /\ req'[r].error = "insufficient"
        /\ store' = store)]_vars

\* an add was refused as insufficient and its user, who had no cart, has none
C10_RefusedWithoutCart ==
  \E r \in Reqs :
    /\ req[r].op = "add" /\ req[r].pc = "done"
    /\ req[r].code = 400 /\ req[r].error = "insufficient"
    /\ \A c \in 1..Len(carts) : carts[c].userId # req[r].user

\* C11: an addProductToCart whose cart holds an active line item of the
\* product answers 400 (already in the cart) at the line-item lookup and
\* writes nothing.
C11_ConflictLeavesStateUnchanged ==
  [][\A r \in Reqs :
       (/\ req[r].pc = "a_item" /\ req'[r].pc # "a_item"
        /\ ActiveItemsOf(req[r].cart, req[r].productId) # {}) =>
       (/\ req'[r].pc = "done" /\ req'[r].code = 400
        /\ req'[r].error = "conflict"
        /\ store' = store)]_vars

\* C12: an addProductToCart that finds the product's line item removed (the
\* product was added and then removed) re-activates that line item: it
\* answers 201, and the (cart, product) pair then has that one row and no
\* other, active, with the requested quantity.
C12_ReAddReusesLineItem ==
  [][\A r \in Reqs :
       /\ (/\ req[r].pc = "a_item" /\ req'[r].pc # "a_item"
           /\ ItemsOf(req[r].cart, req[r].productId) # {}
           /\ \A i \in ItemsOf(req[r].cart, req[r].productId) :
                items[i].status = "removed") =>
            (req'[r].pc = "a_react" /\ store' = store)
       /\ (req[r].pc = "a_react" /\ req'[r].pc = "done") =>
            LET c == req[r].cart
                p == req[r].productId
                i == req[r].item
            IN /\ req'[r].code = 201 /\ req'[r].item = i
               /\ Len(items') = Len(items)
               /\ {j \in 1..Len(items') :
                     items'[j].cartId = c /\ items'[j].productId = p} = {i}
               /\ items'[i].status = "active"
               /\ items'[i].quantity = req[r].quantity]_vars

\* the line items of cart c
RowsOfCart(c) == {i \in 1..Len(items) : items[i].cartId = c}

C14_UpdateToZeroRemoves ==
  [][\A r \in Reqs :
       LET c == req[r].cart
           p == req[r].productId
           i == req[r].item
       IN
       /\ (/\ req[r].pc = "u_write" /\ req'[r].pc # "u_write"
           /\ req[r].alone /\ req[r].quantity > 0) =>
            /\ req'[r].code = 204
            /\ items' = [items EXCEPT ![i].quantity = req[r].quantity]
            /\ items[i].status = "active"
            /\ <<products, carts, orders>>' = <<products, carts, orders>>
       /\ (/\ req[r].pc = "u_write" /\ req'[r].pc # "u_write"
           /\ req[r].alone /\ req[r].quantity = 0) =>
            /\ req'[r].code = 204
            /\ items' = [items EXCEPT ![i].quantity = 0, ![i].status = "removed"]
            /\ <<products, carts, orders>>' = <<products, carts, orders>>
            /\ ItemsOf(c, p) = {i}
       /\ (/\ req[r].pc = "r_item" /\ req'[r].pc # "r_item"
           /\ \A j \in ItemsOf(c, p) : items[j].status = "removed") =>
            /\ req'[r].pc = "done" /\ req'[r].code = 404
            /\ store' = store]_vars

\* C15: a removeProductFromCart answers 404 and writes nothing when its
\* user has no active cart and when the cart it found has no line item of
\* the product or only removed ones; one that runs with no other request in
\* flight sets the active line item it found to removed with quantity 0 and
\* answers 204, and no active line item of the product is left in the cart
\* then (so the same remove sent again answers 404).
C15_RemoveThenNotFound ==
  [][\A r \in Reqs :
       LET c == req[r].cart
           p == req[r].productId
           i == req[r].item
       IN
       /\ (/\ req[r].pc = "r_cart" /\ req'[r].pc # "r_cart"
           /\ ActiveCartsOf(req[r].user) = {}) =>
            (req'[r].pc = "done" /\ req'[r].code = 404 /\ store' = store)
       /\ (/\ req[r].pc = "r_item" /\ req'[r].pc # "r_item"
           /\ \A j \in ItemsOf(c, p) : items[j].status = "removed") =>
            (req'[r].pc = "done" /\ req'[r].code = 404 /\ store' = store)
       /\ (/\ req[r].pc = "r_write" /\ req'[r].pc # "r_write"
           /\ req[r].alone) =>
            /\ req'[r].code = 204
            /\ items[i].status = "active"
            /\ items' = [items EXCEPT ![i].quantity = 0, ![i].status = "removed"]
            /\ <<products, carts, orders>>' = <<products, carts, orders>>
            /\ ActiveItemsOf(c, p) = {i}]_vars

\* C16 (as stated): an updateCartProduct answers 404 and writes nothing when
\* the product is not an active product, when its user has no active cart,
\* and when the cart it found has no active line item of the product.
C16_UpdateNotFound ==
  [][\A r \in Reqs :
       /\ (/\ req[r].pc = "u_product" /\ req'[r].pc # "u_product"
           /\ ~ActiveProduct(req[r].productId)) =>
            (req'[r].pc = "done" /\ req'[r].code = 404 /\ store' = store)
       /\ (/\ req[r].pc = "u_cart" /\ req'[r].pc # "u_cart"
           /\ ActiveCartsOf(req[r].user) = {}) =>
            (req'[r].pc = "done" /\ req'[r].code = 404 /\ store' = store)
       /\ (/\ req[r].pc = "u_item" /\ req'[r].pc # "u_item"
           /\ ActiveItemsOf(req[r].cart, req[r].productId) = {}) =>
            (req'[r].pc = "done" /\ req'[r].code = 404 /\ store' = store)]_vars

\* C16 (amended): an updateCartProduct writes nothing and answers 404 when
\* the product is not an active product, 400 when its user has no active
\* cart, and 404 when the cart it found has no active line item of the
\* product.
C16_UpdateRefusals ==
  [][\A r \in Reqs :
       /\ (/\ req[r].pc = "u_product" /\ req'[r].pc # "u_product"
           /\ ~ActiveProduct(req[r].productId)) =>
            /\ req'[r].pc = "done" /\ req'[r].code = 404
            /\ req'[r].error = "product" /\ store' = store
       /\ (/\ req[r].pc = "u_cart" /\ req'[r].pc # "u_cart"
           /\ ActiveCartsOf(req[r].user) = {}) =>
            /\ req'[r].pc = "done" /\ req'[r].code = 400
            /\ req'[r].error = "nocart" /\ store' = store
       /\ (/\ req[r].pc = "u_item" /\ req'[r].pc # "u_item"
           /\ ActiveItemsOf(req[r].cart, req[r].productId) = {}) =>
            /\ req'[r].pc = "done" /\ req'[r].code = 404
            /\ req'[r].error = "notincart" /\ store' = store]_vars

\* an update of a user who has no cart was answered 400 (no cart)
C16_NoCartAnswered400 ==
  \E r \in Reqs :
    /\ req[r].op = "update" /\ req[r].pc = "done"
    /\ req[r].code = 400 /\ req[r].error = "nocart"
    /\ \A c \in 1..Len(carts) : carts[c].userId # req[r].user

\* C17: a purchaseCart that loads an active cart without active line item
\* goes straight on to mark the cart purchased and to create an order with
\* totalPrice 0 of that cart, answers 201, and none of its steps writes a
\* product (or a line item).
C17_EmptyCartPurchase ==
  [][\A r \in Reqs :
       LET c == req[r].cart
           u == req[r].user
       IN
       /\ (/\ req[r].pc = "p_cart" /\ req'[r].pc # "p_cart"
           /\ ActiveCartsOf(u) # {}) =>
            /\ req'[r].cart \in ActiveCartsOf(u)
            /\ store' = store
            /\ (\A i \in RowsOfCart(req'[r].cart) : items[i].status # "active") =>
                 /\ req'[r].pc = "p_cartw" /\ req'[r].totalPrice = 0
                 /\ \A p \in Products : req'[r].loaded[p].stage = "none"
       /\ (/\ req[r].pc = "p_cartw" /\ req'[r].pc = "p_order"
           /\ LoadedBy(r) = {}) =>
            /\ carts'[c].status = "purchased"
            /\ <<products, items, orders>>' = <<products, items, orders>>
       /\ (/\ req[r].pc = "p_order" /\ req'[r].pc = "done" /\ req'[r].code # 500
           /\ LoadedBy(r) = {}) =>
            /\ req'[r].code = 201
            /\ orders' = Append(orders, [userId |-> u, cartId |-> c, totalPrice |-> 0])
            /\ <<products, items, carts>>' = <<products, items, carts>>]_vars

\* a purchase was answered 201; its user's cart, whose line items are all
\* removed, is purchased and has an order with totalPrice 0, and every
\* product has the stock it started with
C17_OrderOfEmptyCart ==
  \E r \in Reqs, o \in 1..Len(orders) :
    /\ req[r].op = "purchase" /\ req[r].pc = "done" /\ req[r].code = 201
    /\ orders[o].userId = req[r].user /\ orders[o].totalPrice = 0
    /\ carts[orders[o].cartId].status = "purchased"
    /\ RowsOfCart(orders[o].cartId) # {}
    /\ \A i \in RowsOfCart(orders[o].cartId) : items[i].status = "removed"
    /\ \A p \in Products : products[p].quantityAvailable = InitStock

\* C18: no step deletes a cart or changes a purchased cart, and the only
\* change of a cart's status is from active to purchased; the first
\* addProductToCart of a user after a purchase of that user succeeded (both
\* running with no other request in flight), when it answers 201, has
\* created a cart of its own, the newest one, active, and puts its line
\* item in that cart as the cart's first.
C18_PurchasedIsTerminal ==
  [][/\ Len(carts') >= Len(carts)
     /\ \A c \in 1..Len(carts) :
          /\ carts[c].status = "purchased" => carts'[c] = carts[c]
          /\ carts'[c].status # carts[c].status =>
               (carts[c].status = "active" /\ carts'[c].status = "purchased")
     /\ \A r \in Reqs :
          (/\ req[r].op = "add" /\ req[r].afterPurchase /\ req[r].alone
           /\ req[r].pc # "done" /\ req'[r].pc = "done" /\ req'[r].code = 201) =>
          /\ req[r].pc = "a_create"
          /\ req[r].cart = Len(carts)
          /\ carts[req[r].cart] = [userId |-> req[r].user, status |-> "active"]
          /\ RowsOfCart(req[r].cart) = {}
          /\ items'[req'[r].item].cartId = req[r].cart]_vars

\* C19: no step of an addProductToCart, updateCartProduct or
\* removeProductFromCart request, however it interleaves with a purchase,
\* changes the status or the quantity of a line item whose cart is
\* purchased.
C19_PurchasedCartReadOnly ==
  [][\A r \in Reqs :
       (/\ req[r].op \in {"add", "update", "remove"}
        /\ Busy(r) /\ req'[r].pc # req[r].pc) =>
       \A i \in 1..Len(items) :
         carts[items[i].cartId].status = "purchased" =>
           /\ items'[i].status = items[i].status
           /\ items'[i].quantity = items[i].quantity]_vars

\* the line items the response of request r carries
SentItems(r) ==
  {req[r].loaded[p].item : p \in {q \in Products : req[r].loaded[q].stage = "sent"}}

\* C20: getUserCart writes nothing; it answers 404 when its user has no
\* active cart, and otherwise 200 with an active cart of the user and
\* exactly the line items of that cart whose status is active, each with
\* the quantity the store holds.
C20_GetReturnsActiveItems ==
  [][\A r \in Reqs :
       (req[r].pc = "g_cart" /\ req'[r].pc # "g_cart") =>
       /\ store' = store
       /\ req'[r].pc = "done"
       /\ IF ActiveCartsOf(req[r].user) = {}
          THEN req'[r].code = 404
          ELSE /\ req'[r].code = 200
               /\ req'[r].cart \in ActiveCartsOf(req[r].user)
               /\ SentItems(r)' =
                    {i \in RowsOfCart(req'[r].cart) : items[i].status = "active"}
               /\ \A p \in Products :
                    req'[r].loaded[p].stage = "sent" =>
                      /\ items[req'[r].loaded[p].item].productId = p
                      /\ req'[r].loaded[p].quantity =
                           items[req'[r].loaded[p].item].quantity]_vars

\* C21: in every reachable state every line item with status active has a
\* quantity of at least 1.
C21_ActiveQuantityPositive ==
  \A i \in 1..Len(items) : items[i].status = "active" => items[i].quantity >= 1

\* C22: no step of a getUserCart, addProductToCart, updateCartProduct or
\* removeProductFromCart request changes a product; a purchaseCart loads
\* active line items of the cart it found, and a step of it changes of a
\* product nothing but quantityAvailable, and only of a product it loaded
\* such a line item of.
C22_OnlyPurchaseWritesStock ==
  [][\A r \in Reqs :
       /\ (/\ req[r].op \in {"get", "add", "update", "remove"}
           /\ Busy(r) /\ req'[r] # req[r]) =>
            products' = products
       /\ (req[r].pc = "p_cart" /\ req'[r].pc \notin {"p_cart", "done"}) =>
            \A p \in Products :
              req'[r].loaded[p].stage # "none" =>
                req'[r].loaded[p].item \in ActiveItemsOf(req'[r].cart, p)
       /\ (req[r].op = "purchase" /\ Busy(r) /\ req'[r] # req[r]) =>
            \A p \in Products :
              /\ products'[p].price = products[p].price
              /\ products'[p].status = products[p].status
              /\ products'[p].quantityAvailable # products[p].quantityAvailable =>
                   /\ p \in LoadedBy(r)
                   /\ items[req[r].loaded[p].item].cartId = req[r].cart
                   /\ items[req[r].loaded[p].item].productId = p]_vars

\* a purchase was answered 201 and has taken the unit of its purchased line
\* item off the stock of one product, while another product, of which a
\* cart holds an active line item of one unit, has the stock it started with
C22_StockOnlyOfPurchased ==
  \E r \in Reqs, p, q \in Products, i, j \in 1..Len(items) :
    /\ req[r].op = "purchase" /\ req[r].pc = "done" /\ req[r].code = 201
    /\ items[j].productId = p /\ items[j].status = "purchased"
    /\ items[j].quantity = 1
    /\ carts[items[j].cartId].status = "purchased"
    /\ products[p].quantityAvailable = InitStock - 1
    /\ q # p /\ products[q].quantityAvailable = InitStock
    /\ items[i].productId = q /\ items[i].status = "active"
    /\ items[i].quantity = 1
    /\ \A x \in Products :
         products[x].price = PriceOf(x) /\ products[x].status = "active"

\* C23: a purchaseCart writes neither the cart nor an order while it loads
\* or runs its line-item tasks; it marks the cart purchased when every task
\* has done both its updates, and creates the order when the cart is
\* purchased; at the creation of the order the line items the purchase
\* loaded are purchased, and every order is of a purchased cart.
C23_PurchaseOrdering ==
  [][/\ \A r \in Reqs :
          /\ (/\ req[r].op = "purchase" /\ req[r].pc \in {"p_cart", "p_items"}
              /\ req'[r] # req[r]) =>
               (carts' = carts /\ orders' = orders)
          /\ (req[r].pc = "p_cartw" /\ req'[r].pc = "p_order") =>
               /\ ~req[r].failed
               /\ \A p \in LoadedBy(r) : req[r].loaded[p].stage = "done"
               /\ carts'[req[r].cart].status = "purchased"
               /\ orders' = orders
          /\ (req[r].pc = "p_order" /\ req'[r].pc = "done" /\ req'[r].code = 201) =>
               /\ carts[req[r].cart].status = "purchased"
               /\ orders' = Append(orders, orders'[Len(orders')])
               /\ orders'[Len(orders')].cartId = req[r].cart
               /\ \A p \in LoadedBy(r) :
                    items[req[r].loaded[p].item].status = "purchased"
     /\ \A o \in 1..Len(orders') :
          carts'[orders'[o].cartId].status = "purchased"]_vars

\* C24: in every reachable state a cart with status purchased has no line
\* item with status active.
C24_NoActiveItemInPurchasedCart ==
  \A i \in 1..Len(items) :
    carts[items[i].cartId].status = "purchased" => items[i].status # "active"

\* C25: when an addProductToCart that ran with no other request in flight
\* answers 201, an active cart of its user holds an active line item of the
\* requested product with the requested quantity.
C25_AddSuccessMeansInCart ==
  [][\A r \in Reqs :
       (/\ req[r].op = "add" /\ req[r].alone
        /\ req[r].pc # "done" /\ req'[r].pc = "done" /\ req'[r].code = 201) =>
       \E c \in 1..Len(carts'), i \in 1..Len(items') :
         /\ carts'[c].userId = req[r].user /\ carts'[c].status = "active"
         /\ items'[i].cartId = c /\ items'[i].productId = req[r].productId
         /\ items'[i].status = "active"
         /\ items'[i].quantity = req[r].quantity]_vars

====
